---- MODULE Spec2Model ----
(***************************************************************************)
(* Model of linear-updates: the cycle resolver (draft.py), the Linear      *)
(* GraphQL client (linear_client.py), the publish loop and the update      *)
(* router (cli.py), and the deterministic renderer (draft.py).             *)
(*                                                                         *)
(* Each component has its own variables and its own specification; a       *)
(* specification holds the other components' variables at their idle       *)
(* values.                                                                 *)
(***************************************************************************)
EXTENDS Integers, Sequences, FiniteSets, TLC

VARIABLES
    \* _pick_cycles (draft.py)
    cycles,        \* the list[Cycle] argument
    now_utc,       \* the reference instant argument
    pick_pc,       \* "call" before the call, "done" after it
    picked,        \* what the call produced: a pair or a raised error
    \* LinearClient.graphql (linear_client.py)
    gq_resp,       \* what client.post met: a transport failure or an HTTP response
    gq_pc,         \* "call" before the call, "done" after it
    gq_out,        \* what the call produced: the data or a raised error
    \* the paginated list operations (linear_client.py)
    ls_op,         \* which list operation runs
    ls_max_pages,  \* its max_pages argument
    srv_pages,     \* how many pages the server holds for the listed connection
    ls_attempt,    \* index into queries of the query shape in use
    ls_iter,       \* iterations of "for _ in range(max_pages)" done in this attempt
    ls_after,      \* the cursor variable "after" (NoCursor: None)
    ls_items,      \* the list accumulated so far
    ls_last_err,   \* list_team_projects' last_err
    ls_sent,       \* history: the requests issued, in order
    ls_pc,         \* "loop", "returned" or "raised"
    ls_out,        \* what the operation returned or raised
    \* post_to_linear's publish path (cli.py) and the server's project health
    pub_updates,   \* project_updates: the routed updates, by project id
    pub_dry_run,   \* the --dry-run option
    pub_i,         \* index in project_updates of the update being posted
    pub_step,      \* "health" before get_project_health, "create" before the mutation
    current_health,\* the local current_health
    posted_count,  \* the local posted_count
    pub_pc,        \* "routed", "loop", "done", "exit_early" or "aborted"
    pub_written,   \* whether the output Markdown file was written
    pub_reported,  \* indexes of the updates whose failure was printed
    pub_log,       \* history: the health reads and mutations issued, in order
    srv_health,    \* the server's health of each project
    \* the deterministic renderer (draft.py) and the update router (cli.py)
    rt_projects,   \* facts["projects"]
    rt_markdown,   \* the Markdown document, as its lines
    rt_results,    \* what _parse_project_updates returned
    rt_pc,         \* "render", "route" or "done"
    \* _pick_team (draft.py)
    tm_teams,      \* what client.list_teams() returned
    tm_config,     \* config.team_id and config.team_key
    tm_out,        \* the team returned or the error raised
    tm_pc,
    \* the report scope (draft.py)
    sc_projects,   \* what client.list_team_projects() returned
    sc_in_scope,   \* projects_in_scope
    sc_pc,
    \* the facts of one issue (draft.py)
    ft_kind,       \* "prev" or "curr": the cycle the issue was listed for
    ft_now,        \* now_utc
    ft_window,     \* the starts_at and ends_at of that cycle
    ft_comments,   \* what client.list_issue_comments() returned
    ft_history,    \* what client.list_issue_history() returned
    ft_issue,      \* the dict appended to prev_issue_facts / curr_issue_facts
    ft_pc,
    \* _truncate (draft.py)
    tr_text,
    tr_out,
    tr_pc,
    \* OpenRouterClient._chat (openrouter_client.py)
    or_resp,       \* how the service answers
    or_out,        \* the content returned or the error raised
    or_pc

cyVars == <<cycles, now_utc, pick_pc, picked>>
gqVars == <<gq_resp, gq_pc, gq_out>>
lsVars == <<ls_op, ls_max_pages, srv_pages, ls_attempt, ls_iter, ls_after, ls_items,
            ls_last_err, ls_sent, ls_pc, ls_out>>

pubVars == <<pub_updates, pub_dry_run, pub_i, pub_step, current_health, posted_count,
             pub_pc, pub_written, pub_reported, pub_log, srv_health>>

rtVars == <<rt_projects, rt_markdown, rt_results, rt_pc>>

tmVars == <<tm_teams, tm_config, tm_out, tm_pc>>

scVars == <<sc_projects, sc_in_scope, sc_pc>>

ftVars == <<ft_kind, ft_now, ft_window, ft_comments, ft_history, ft_issue, ft_pc>>

trVars == <<tr_text, tr_out, tr_pc>>

orVars == <<or_resp, or_out, or_pc>>

\* the parts of draft_weekly_update other than the cycle resolver
draftVars == <<tmVars, scVars, ftVars, trVars, orVars>>

vars == <<cyVars, gqVars, lsVars, pubVars, rtVars, draftVars>>

IdleTeam ==
    /\ tm_teams = <<>>
    /\ tm_config = <<>>
    /\ tm_out = <<>>
    /\ tm_pc = "idle"

IdleScope ==
    /\ sc_projects = <<>>
    /\ sc_in_scope = <<>>
    /\ sc_pc = "idle"

IdleFacts ==
    /\ ft_kind = "none"
    /\ ft_now = 0
    /\ ft_window = <<>>
    /\ ft_comments = <<>>
    /\ ft_history = <<>>
    /\ ft_issue = <<>>
    /\ ft_pc = "idle"

IdleTruncate ==
    /\ tr_text = <<>>
    /\ tr_out = <<>>
    /\ tr_pc = "idle"

IdleGeneration ==
    /\ or_resp = <<>>
    /\ or_out = <<>>
    /\ or_pc = "idle"

IdleDraft ==
    /\ IdleTeam
    /\ IdleScope
    /\ IdleFacts
    /\ IdleTruncate
    /\ IdleGeneration

(***************************************************************************)
(* Bounds                                                                  *)
(***************************************************************************)
\* instants are 0..MaxT
MaxT == 4
\* longest cycle list
MaxCycles == 3

\* longest protocol-level error list of a response
MaxErrors == 2
\* most pages the server holds for one connection
MaxServerPages == 3
\* largest max_pages argument of a list operation
MaxCeiling == 2
\* projects are 1..MaxProjects
MaxProjects == 2
\* most routed updates of one run
MaxUpdates == 2
MaxLines == 4
MaxComments == 6
MaxHistory == 2
MaxOver == 2
MaxTeams == 2
MaxChoices == 2

Times == 0..MaxT

\* Instants enter _pick_cycles only through comparisons, so the reference instant
\* is placed mid-range: cycle instants exist on both sides of it.
ReferenceInstants == {MaxT \div 2}

(***************************************************************************)
(* models.py: Cycle.  name and number play no part in the resolution.      *)
(* Nothing validates starts_at < ends_at when a Cycle is built from a      *)
(* response node, so every pair of instants is a possible cycle.           *)
(***************************************************************************)
Cycle == [id : 1..MaxCycles, starts_at : Times, ends_at : Times]

\* the "no cycle" placeholder of a result that carries no pair
NoCycle == [id |-> 0, starts_at |-> 0, ends_at |-> 0]

\* the list of cycles with the windows w, their ids being their positions in the list
CycleList(w) ==
    [i \in 1..Len(w) |-> [id |-> i, starts_at |-> w[i][1], ends_at |-> w[i][2]]]

(***************************************************************************)
(* _pick_cycles, draft.py:47-64                                            *)
(***************************************************************************)
RECURSIVE InsertByStart(_, _)
\* insertion after every element whose key is <= c's: what keeps sorted() stable
InsertByStart(c, s) ==
    IF s = <<>> THEN <<c>>
    ELSE IF Head(s).starts_at <= c.starts_at
         THEN <<Head(s)>> \o InsertByStart(c, Tail(s))
         ELSE <<c>> \o s

RECURSIVE SortedByStart(_)
\* sorted(cycles, key=lambda c: c.starts_at)
SortedByStart(cs) ==
    IF cs = <<>> THEN <<>>
    ELSE InsertByStart(cs[Len(cs)], SortedByStart(SubSeq(cs, 1, Len(cs) - 1)))

\* c.starts_at <= now_utc <= c.ends_at
ContainsNow(c, now) == c.starts_at <= now /\ now <= c.ends_at

\* [c for c in cycles_sorted if c.starts_at <= now_utc <= c.ends_at]
Containing(s, now) == SelectSeq(s, LAMBDA c : ContainsNow(c, now))

\* [c for c in cycles_sorted if c.starts_at > now_utc]
FutureCycles(s, now) == SelectSeq(s, LAMBDA c : c.starts_at > now)

\* [c for c in cycles_sorted if c.ends_at <= now_utc]
PastCycles(s, now) == SelectSeq(s, LAMBDA c : c.ends_at <= now)

\* mutant: the candidates may end at current's start
PreviousCandidates_inclusive(s, current) ==
    SelectSeq(s, LAMBDA c : c.ends_at <= current.starts_at)

\* [c for c in cycles_sorted if c.ends_at < current.starts_at]
PreviousCandidates(s, current) == SelectSeq(s, LAMBDA c : c.ends_at < current.starts_at)

\* mutant: the latest start instead of the earliest
MinByStart_latest(s) ==
    s[CHOOSE i \in 1..Len(s) : \A j \in 1..Len(s) : s[i].starts_at >= s[j].starts_at]

\* min(seq, key=starts_at): the first element with the least key
MinByStart(s) ==
    s[CHOOSE i \in 1..Len(s) :
        /\ \A j \in 1..Len(s) : s[i].starts_at <= s[j].starts_at
        /\ \A j \in 1..(i - 1) : s[j].starts_at > s[i].starts_at]

\* mutant: the earliest end instead of the latest
MaxByEnd_earliest(s) ==
    s[CHOOSE i \in 1..Len(s) : \A j \in 1..Len(s) : s[i].ends_at <= s[j].ends_at]

\* max(seq, key=ends_at): the first element with the greatest key
MaxByEnd(s) ==
    s[CHOOSE i \in 1..Len(s) :
        /\ \A j \in 1..Len(s) : s[i].ends_at >= s[j].ends_at
        /\ \A j \in 1..(i - 1) : s[j].ends_at < s[i].ends_at]

PickOk(cur, prev) == [kind |-> "ok", current |-> cur, previous |-> prev, branch |-> "none"]

PickError(branch) ==
    [kind |-> "LinearAPIError", current |-> NoCycle, previous |-> NoCycle, branch |-> branch]

_pick_cycles(cs, now) ==
    LET cycles_sorted == SortedByStart(cs)
        containing == Containing(cycles_sorted, now)
    IN  IF containing = <<>>
        THEN LET future == FutureCycles(cycles_sorted, now)
                 past == PastCycles(cycles_sorted, now)
             IN  IF future # <<>> /\ past # <<>>
                 THEN PickOk(MinByStart(future), MaxByEnd(past))
                 ELSE PickError("undetermined")
        ELSE LET current == Head(containing)
                 previous_candidates == PreviousCandidates(cycles_sorted, current)
             IN  IF previous_candidates = <<>>
                 THEN PickError("no_previous")
                 ELSE PickOk(current, MaxByEnd(previous_candidates))

(***************************************************************************)
(* Specification of the resolver: every cycle list and reference instant   *)
(* within the bounds, then the call.                                       *)
(***************************************************************************)
IdleCycles ==
    /\ cycles = <<>>
    /\ now_utc = 0
    /\ pick_pc = "idle"
    /\ picked = PickError("none")

(***************************************************************************)
(* HTTP responses as LinearClient.graphql sees them.                       *)
(*                                                                         *)
(* client.post either raises (a transport failure) or returns a response   *)
(* with a status code and a body.  resp.json() raises on a body that is    *)
(* not JSON, and otherwise returns whatever JSON value the body holds:     *)
(* null, an array, or an object.  Of an object only the keys "errors" and  *)
(* "data" are read; each may be absent, null, or hold a value.             *)
(***************************************************************************)
Absent == [tag |-> "absent", list |-> <<>>]
JsonNull == [tag |-> "null", list |-> <<>>]
ErrorList(n) == [tag |-> "list", list |-> [i \in 1..n |-> i]]
\* the "errors" member of a JSON object
ErrorsMembers == {Absent, JsonNull} \cup { ErrorList(n) : n \in 0..MaxErrors }

NoData == "no data"
DataAbsent == [tag |-> "absent", value |-> NoData]
DataNull == [tag |-> "null", value |-> NoData]
DataValue(v) == [tag |-> "value", value |-> v]

NoBody == [json |-> "none", n |-> 0, errors |-> Absent, data |-> DataAbsent]
InvalidBody == [NoBody EXCEPT !.json = "invalid"]
NullBody == [NoBody EXCEPT !.json = "null"]
\* a JSON array of n numbers
ArrayBody(n) == [NoBody EXCEPT !.json = "array", !.n = n]
ObjectBody(errors, data) ==
    [json |-> "object", n |-> 0, errors |-> errors, data |-> data]

TransportFailure == [transport |-> "failed", status |-> 0, body |-> NoBody]
HttpResponse(status, body) == [transport |-> "ok", status |-> status, body |-> body]

\* status codes on both sides of the "status_code >= 400" test
Statuses == {200, 399, 400, 500}

(***************************************************************************)
(* LinearClient.graphql, linear_client.py:33-63                            *)
(***************************************************************************)
\* Python truthiness of payload: None, {} and [] are falsy
PayloadTruthy(body) ==
    \/ body.json = "array" /\ body.n > 0
    \/ body.json = "object" /\ (body.errors.tag # "absent" \/ body.data.tag # "absent")

\* payload.get("errors") of an object: None for a missing key
ErrorsTruthy(body) == body.errors.tag = "list" /\ body.errors.list # <<>>

GraphqlOk(data) == [kind |-> "ok", data |-> data, errors |-> <<>>, message |-> "none"]

\* raise LinearAPIError(message, errors=errors): self.errors = errors or []
LinearAPIError(message, errors) ==
    [kind |-> "LinearAPIError", data |-> NoData, errors |-> errors, message |-> message]

\* an exception of another class leaving the call
OtherError(kind) == [kind |-> kind, data |-> NoData, errors |-> <<>>, message |-> "none"]

graphql(resp) ==
    IF resp.transport # "ok"
    THEN \* client.post raises: nothing in graphql catches it
         OtherError("HTTPError")
    ELSE LET body == resp.body IN
         IF resp.status >= 400
         THEN IF PayloadTruthy(body)
              THEN IF body.json = "array"
                   THEN \* payload.get on a list
                        OtherError("AttributeError")
                   ELSE IF ErrorsTruthy(body)
                        THEN LinearAPIError("graphql over http error", body.errors.list)
                        ELSE LinearAPIError("http", <<>>)
              ELSE LinearAPIError("http", <<>>)
         ELSE IF body.json \in {"invalid", "null"}
              THEN \* payload is None
                   LinearAPIError("not JSON", <<>>)
         ELSE IF body.json = "array"
              THEN \* '"errors" in payload' is False for a list of numbers; payload.get raises
                   OtherError("AttributeError")
         ELSE IF ErrorsTruthy(body)
              THEN LinearAPIError("graphql", body.errors.list)
         ELSE IF body.data.tag # "value"
              THEN \* errors=payload.get("errors"): None or [] here, both stored as []
                   LinearAPIError("missing data", <<>>)
         ELSE GraphqlOk(body.data.value)

(***************************************************************************)
(* The paginated list operations, linear_client.py:78-300.                 *)
(*                                                                         *)
(* The server holds srv_pages pages of the listed connection.  Page k      *)
(* carries the nodes 2k-1 and 2k, the cursor k, and hasNextPage exactly    *)
(* when a later page exists; a request with "after" = k is answered with   *)
(* page k+1, one with "after" = None with page 1.                          *)
(***************************************************************************)
ListOps == {"cycles", "projects", "issues", "comments", "history"}

NoCursor == 0

\* the (field_name, query) pairs tried in order: two for list_team_projects,
\* the single query of every other list operation
Queries(op) == IF op = "projects" THEN <<"status", "projectStatus">> ELSE <<op>>

PageNodes(k) == <<2 * k - 1, 2 * k>>

\* the data of the response that serves page k of n
PageData(k, n) ==
    [shape |-> "connection", nodes |-> PageNodes(k), hasNextPage |-> k < n, endCursor |-> k]

\* data in which the connection the operation indexes is missing
OtherData == [shape |-> "other", nodes |-> <<>>, hasNextPage |-> FALSE, endCursor |-> NoCursor]

\* the ways a request may fail before its data is looked at: in transport, at
\* HTTP level, with a body that is not JSON or not a JSON object, with an
\* error list, or without data
RequestFailures ==
    { TransportFailure,
      HttpResponse(500, InvalidBody),
      HttpResponse(400, ObjectBody(ErrorList(1), DataAbsent)),
      HttpResponse(200, ObjectBody(ErrorList(1), DataNull)),
      HttpResponse(200, ObjectBody(Absent, DataAbsent)),
      HttpResponse(200, ArrayBody(1)) }

\* the failures of a list request: those, or data without the connection
ListFailures == RequestFailures \cup {HttpResponse(200, ObjectBody(Absent, DataValue(OtherData)))}

PageServed(after, n) == HttpResponse(200, ObjectBody(Absent, DataValue(PageData(after + 1, n))))

\* Cycle(...), Project(...), Issue(...) ... built from the nodes of a page: the
\* model keeps the node's id and the query shape that fetched it
Converted(nodes, via) == [i \in 1..Len(nodes) |-> [id |-> nodes[i], via |-> via]]

\* data["team"]["cycles"] and its like: a KeyError / TypeError when the connection is missing
Connection(out) ==
    IF out.kind # "ok" THEN out
    ELSE IF out.data.shape # "connection" THEN OtherError("KeyError")
    ELSE out

\* after = page["endCursor"]
NextAfter(after, page) == page.endCursor

\* mutant: one page more than max_pages
LoopExhausted_late(iter, max_pages) == iter > max_pages

\* "for _ in range(max_pages)" has run its last iteration
LoopExhausted(iter, max_pages) == iter >= max_pages

\* mutant: the items of the failed attempt are kept
ProjectsAtRetry_kept == ls_items

\* "projects: list[Project] = []" at the start of an attempt
ProjectsAtRetry == <<>>

ListReturned(items) == [kind |-> "ok", items |-> items, reports |-> <<>>]

\* an exception leaving the list operation; reports: the failures its message reports
ListRaised(kind, reports) == [kind |-> kind, items |-> <<>>, reports |-> reports]

NoListOut == [kind |-> "none", items |-> <<>>, reports |-> <<>>]

NoErr == [attempt |-> "none", error |-> OtherError("none")]

\* one iteration of the page loop whose request is answered with resp
ListIteration(resp) ==
    LET via == Queries(ls_op)[ls_attempt]
        out == Connection(graphql(resp))
        sent == Append(ls_sent, [via |-> via, after |-> ls_after, served |-> out.kind = "ok"])
    IN  /\ ls_sent' = sent
        /\ IF out.kind = "ok"
           THEN LET page == out.data
                    items == ls_items \o Converted(page.nodes, via)
                IN  /\ ls_items' = items
                    /\ ls_iter' = ls_iter + 1
                    /\ IF ~page.hasNextPage \/ LoopExhausted(ls_iter + 1, ls_max_pages)
                       THEN /\ ls_pc' = "returned"
                            /\ ls_out' = ListReturned(items)
                            /\ ls_after' = IF page.hasNextPage
                                           THEN NextAfter(ls_after, page) ELSE ls_after
                       ELSE /\ ls_after' = NextAfter(ls_after, page)
                            /\ UNCHANGED <<ls_pc, ls_out>>
                    /\ UNCHANGED <<ls_attempt, ls_last_err>>
           ELSE IF ls_op # "projects"
           THEN \* no handler: the exception leaves the operation as it is
                /\ ls_pc' = "raised"
                /\ ls_out' = ListRaised(out.kind, <<[attempt |-> via, error |-> out]>>)
                /\ UNCHANGED <<ls_attempt, ls_iter, ls_after, ls_items, ls_last_err>>
           ELSE \* except Exception as e: last_err = e; continue
                LET e == [attempt |-> via, error |-> out] IN
                /\ ls_last_err' = e
                /\ IF ls_attempt < Len(Queries(ls_op))
                   THEN /\ ls_attempt' = ls_attempt + 1
                        /\ ls_items' = ProjectsAtRetry
                        /\ ls_after' = NoCursor
                        /\ ls_iter' = 0
                        /\ UNCHANGED <<ls_pc, ls_out>>
                   ELSE \* raise LinearAPIError(f"Failed to query team projects ...: {last_err}")
                        /\ ls_pc' = "raised"
                        /\ ls_out' = ListRaised("LinearAPIError", <<e>>)
                        /\ UNCHANGED <<ls_attempt, ls_iter, ls_after, ls_items>>

\* the request is answered with the page it asks for
ListPageServed ==
    /\ ls_pc = "loop"
    /\ ListIteration(PageServed(ls_after, srv_pages))
    /\ UNCHANGED <<ls_op, ls_max_pages, srv_pages, cyVars, gqVars, pubVars, rtVars, draftVars>>

\* the request fails: in transport, at HTTP level, in the protocol or in the data's shape
ListPageFailed ==
    /\ ls_pc = "loop"
    /\ \E resp \in ListFailures : ListIteration(resp)
    /\ UNCHANGED <<ls_op, ls_max_pages, srv_pages, cyVars, gqVars, pubVars, rtVars, draftVars>>

(***************************************************************************)
(* Project health and project updates, linear_client.py:302-350, and the   *)
(* publish path of post_to_linear, cli.py:189-254.                         *)
(***************************************************************************)
Projects == 1..MaxProjects

\* None, and the health values the API documents
HealthNone == "none"
HealthValues == {HealthNone, "onTrack", "atRisk"}

\* the data of a ProjectHealth response: the project is an object or null
HealthData(h) == [project |-> "object", health |-> h]
NullProjectData == [project |-> "null", health |-> HealthNone]

\* the responses the ProjectHealth query of project p may meet
HealthResponses(p) ==
    RequestFailures
    \cup { HttpResponse(200, ObjectBody(Absent, DataValue(HealthData(srv_health[p])))),
           HttpResponse(200, ObjectBody(Absent, DataValue(NullProjectData))) }

HealthReturned(h) == [kind |-> "returned", health |-> h]
HealthRaised(kind) == [kind |-> kind, health |-> HealthNone]

\* get_project_health, linear_client.py:302-319
get_project_health(resp) ==
    LET out == graphql(resp) IN
    IF out.kind = "LinearAPIError"
    THEN \* except LinearAPIError: return None
         HealthReturned(HealthNone)
    ELSE IF out.kind # "ok"
    THEN \* any other exception is not caught
         HealthRaised(out.kind)
    ELSE IF out.data.project = "null"
    THEN \* data.get("project", {}) is None: None.get raises
         HealthRaised("AttributeError")
    ELSE HealthReturned(out.data.health)

\* mutant: the health is never put into the input
CreateInput_no_health(project_id, body, health) ==
    [projectId |-> project_id, body |-> body, has_health |-> FALSE, health |-> HealthNone]

\* input_data of create_project_update, linear_client.py:346-348
CreateInput(project_id, body, health) ==
    [projectId |-> project_id, body |-> body,
     has_health |-> health # HealthNone,
     health |-> health]

\* the data of a CreateProjectUpdate response
CreateData(puc, success) == [projectUpdateCreate |-> puc, success |-> success]

\* the response to a mutation the server carried out
UpdateCreated == HttpResponse(200, ObjectBody(Absent, DataValue(CreateData("object", TRUE))))

\* the responses to a mutation the server did not carry out
CreateFailures ==
    RequestFailures
    \cup { HttpResponse(200, ObjectBody(Absent, DataValue(CreateData("object", FALSE)))),
           HttpResponse(200, ObjectBody(Absent, DataValue(CreateData("null", FALSE)))),
           HttpResponse(200, ObjectBody(Absent, DataValue(CreateData("absent", FALSE)))) }

CreateReturned(success) == [kind |-> "returned", success |-> success]
CreateRaised(kind) == [kind |-> kind, success |-> FALSE]

\* create_project_update followed by result.get("success"), linear_client.py:349-350
\* and cli.py:221
create_project_update(resp) ==
    LET out == graphql(resp) IN
    IF out.kind # "ok" THEN CreateRaised(out.kind)
    ELSE IF out.data.projectUpdateCreate = "absent"
    THEN \* data["projectUpdateCreate"]
         CreateRaised("KeyError")
    ELSE IF out.data.projectUpdateCreate = "null"
    THEN \* result is None: result.get raises
         CreateRaised("AttributeError")
    ELSE CreateReturned(out.data.success)

\* What the server does to a project's health when it creates an update: the
\* health of the input, and none when the input has no health (the mutation
\* "clears" it: create_project_update's docstring and cli.py:214).
HealthAfterUpdate(input) == IF input.has_health THEN input.health ELSE HealthNone

\* what draft_weekly_update may raise: the errors of the Linear client, of
\* the generation service, of the transport, and the ValueError of a missing key
DraftFailures == {"LinearAPIError", "OpenRouterError", "HTTPError", "ValueError"}

\* cli.py:185-187: markdown, facts = draft_weekly_update(...), which returns
\* or raises; what it raises reaches the handler at cli.py:256
PublishDraft ==
    /\ pub_pc = "start"
    /\ \/ pub_pc' = "drafted"
       \/ \E e \in DraftFailures : pub_pc' = "aborted"
    /\ UNCHANGED <<pub_updates, pub_dry_run, pub_i, pub_step, current_health, posted_count,
                   pub_written, pub_reported, pub_log, srv_health>>
    /\ UNCHANGED <<cyVars, gqVars, lsVars, rtVars, draftVars>>

\* cli.py:190: project_updates = _parse_project_updates(markdown, facts); an
\* update is modelled by the project it is keyed to
PublishRoute ==
    /\ pub_pc = "drafted"
    /\ \E n \in 0..MaxUpdates : pub_updates' \in [1..n -> Projects]
    /\ pub_pc' = "routed"
    /\ UNCHANGED <<pub_dry_run, pub_i, pub_step, current_health, posted_count,
                   pub_written, pub_reported, pub_log, srv_health>>
    /\ UNCHANGED <<cyVars, gqVars, lsVars, rtVars, draftVars>>

\* "if not project_updates: ... raise typer.Exit(0)", cli.py:192-196
PublishNothing ==
    /\ pub_pc = "routed"
    /\ pub_updates = <<>>
    /\ pub_pc' = "exit_early"
    /\ UNCHANGED <<pub_updates, pub_dry_run, pub_i, pub_step, current_health, posted_count,
                   pub_written, pub_reported, pub_log, srv_health>>
    /\ UNCHANGED <<cyVars, gqVars, lsVars, rtVars, draftVars>>

\* "if dry_run: ... raise typer.Exit(0)", cli.py:198-206
PublishDryRun ==
    /\ pub_pc = "routed"
    /\ pub_updates # <<>>
    /\ pub_dry_run
    /\ pub_pc' = "exit_early"
    /\ UNCHANGED <<pub_updates, pub_dry_run, pub_i, pub_step, current_health, posted_count,
                   pub_written, pub_reported, pub_log, srv_health>>
    /\ UNCHANGED <<cyVars, gqVars, lsVars, rtVars, draftVars>>

\* mutant: the loop is entered in a dry run as well
LoopEntered_dry_run == pub_updates # <<>>

\* neither of the early exits at cli.py:192 and cli.py:198 was taken
LoopEntered == pub_updates # <<>> /\ ~pub_dry_run

\* cli.py:209-211: the loop is entered
PublishBegin ==
    /\ pub_pc = "routed"
    /\ LoopEntered
    /\ pub_pc' = "loop"
    /\ pub_i' = 1
    /\ pub_step' = "health"
    /\ posted_count' = 0
    /\ UNCHANGED <<pub_updates, pub_dry_run, current_health, pub_written, pub_reported,
                   pub_log, srv_health>>
    /\ UNCHANGED <<cyVars, gqVars, lsVars, rtVars, draftVars>>

\* cli.py:215: current_health = client.get_project_health(pu["project_id"])
PublishReadHealth ==
    /\ pub_pc = "loop"
    /\ pub_i <= Len(pub_updates)
    /\ pub_step = "health"
    /\ \E resp \in HealthResponses(pub_updates[pub_i]) :
          LET p == pub_updates[pub_i]
              got == get_project_health(resp)
          IN  /\ pub_log' = Append(pub_log,
                     [op |-> "health", i |-> pub_i, project |-> p,
                      outcome |-> got.kind,
                      degraded |-> got.kind = "returned" /\ graphql(resp).kind # "ok",
                      success |-> FALSE,
                      health |-> got.health, has_health |-> FALSE,
                      before |-> srv_health[p], after |-> srv_health[p]])
              /\ IF got.kind = "returned"
                 THEN /\ current_health' = got.health
                      /\ pub_step' = "create"
                      /\ UNCHANGED pub_pc
                 ELSE \* not a LinearAPIError: the handler at cli.py:231 lets it pass,
                      \* the one at cli.py:256 ends the run
                      /\ pub_pc' = "aborted"
                      /\ UNCHANGED <<current_health, pub_step>>
    /\ UNCHANGED <<pub_updates, pub_dry_run, pub_i, posted_count, pub_written,
                   pub_reported, srv_health>>
    /\ UNCHANGED <<cyVars, gqVars, lsVars, rtVars, draftVars>>

\* cli.py:216-236: the mutation, the count, the per-project handler
PublishCreate ==
    /\ pub_pc = "loop"
    /\ pub_i <= Len(pub_updates)
    /\ pub_step = "create"
    /\ LET p == pub_updates[pub_i]
           input == CreateInput(p, pub_i, current_health)
       IN  \E resp \in {UpdateCreated} \cup CreateFailures :
             LET result == create_project_update(resp)
                 after == IF resp = UpdateCreated THEN HealthAfterUpdate(input)
                          ELSE srv_health[p]
             IN  /\ srv_health' = [srv_health EXCEPT ![p] = after]
                 /\ pub_log' = Append(pub_log,
                        [op |-> "create", i |-> pub_i, project |-> input.projectId,
                         outcome |-> result.kind, degraded |-> FALSE,
                         success |-> result.kind = "returned" /\ result.success,
                         health |-> input.health, has_health |-> input.has_health,
                         before |-> srv_health[p], after |-> after])
                 /\ posted_count' = IF result.kind = "returned" /\ result.success
                                    THEN posted_count + 1 ELSE posted_count
                 /\ pub_reported' = IF result.kind = "LinearAPIError"
                                    THEN pub_reported \cup {pub_i} ELSE pub_reported
                 /\ IF result.kind \in {"returned", "LinearAPIError"}
                    THEN /\ pub_i' = pub_i + 1
                         /\ pub_step' = "health"
                         /\ UNCHANGED pub_pc
                    ELSE /\ pub_pc' = "aborted"
                         /\ UNCHANGED <<pub_i, pub_step>>
    /\ UNCHANGED <<pub_updates, pub_dry_run, current_health, pub_written>>
    /\ UNCHANGED <<cyVars, gqVars, lsVars, rtVars, draftVars>>

\* cli.py:238-254: the output file is written and the count printed
PublishFinish ==
    /\ pub_pc = "loop"
    /\ pub_i > Len(pub_updates)
    /\ pub_written' = TRUE
    /\ pub_pc' = "done"
    /\ UNCHANGED <<pub_updates, pub_dry_run, pub_i, pub_step, current_health, posted_count,
                   pub_reported, pub_log, srv_health>>
    /\ UNCHANGED <<cyVars, gqVars, lsVars, rtVars, draftVars>>

(***************************************************************************)
(* Text.  A string is the sequence of its characters, a document the       *)
(* sequence of its lines (the text between two "\n").  The characters that *)
(* matter are "#", the space, the ASCII hyphen and the three dashes that   *)
(* _normalize_name replaces: U+2011 (nbhyphen), U+2013 (endash), U+2014    *)
(* (emdash).  A text that neither starts with "#" nor holds a space or a   *)
(* dash is kept as one token.                                              *)
(***************************************************************************)
IsSpace(ch) == ch = " "

RECURSIVE LStrip(_)
LStrip(t) == IF t # <<>> /\ IsSpace(Head(t)) THEN LStrip(Tail(t)) ELSE t

RECURSIVE RStrip(_)
RStrip(t) ==
    IF t # <<>> /\ IsSpace(t[Len(t)]) THEN RStrip(SubSeq(t, 1, Len(t) - 1)) ELSE t

\* str.strip()
Strip(t) == RStrip(LStrip(t))

IsBlank(line) == \A i \in DOMAIN line : IsSpace(line[i])

RECURSIVE DropLeadingBlank(_)
DropLeadingBlank(lines) ==
    IF lines # <<>> /\ IsBlank(Head(lines)) THEN DropLeadingBlank(Tail(lines)) ELSE lines

RECURSIVE DropTrailingBlank(_)
DropTrailingBlank(lines) ==
    IF lines # <<>> /\ IsBlank(lines[Len(lines)])
    THEN DropTrailingBlank(SubSeq(lines, 1, Len(lines) - 1))
    ELSE lines

\* str.rstrip() of a document: the trailing blank lines go, and the spaces
\* that end the last line left
RStripLines(lines) ==
    LET kept == DropTrailingBlank(lines) IN
    IF kept = <<>> THEN <<>>
    ELSE [kept EXCEPT ![Len(kept)] = RStrip(kept[Len(kept)])]

\* str.strip() of a document
StripLines(lines) ==
    LET kept == RStripLines(DropLeadingBlank(lines)) IN
    IF kept = <<>> THEN <<>>
    ELSE [kept EXCEPT ![1] = LStrip(kept[1])]

(***************************************************************************)
(* _facts_to_markdown, draft.py:293-339                                    *)
(***************************************************************************)
\* f"- {key}: {title} ({state}, {assignee})" with the "or" defaults
Bullet(i) ==
    <<"-", " ",
      IF i.key = "None" THEN "ISSUE" ELSE i.key, ":", " ", i.title, " ", "(",
      IF i.state = "None" THEN "Unknown" ELSE i.state, ",", " ",
      IF i.assignee = "None" THEN "Unassigned" ELSE i.assignee, ")">>

IssueLines(issues) ==
    IF issues = <<>> THEN << <<"-", " ", "No", " ", "updates">> >>
    ELSE [k \in DOMAIN issues |-> Bullet(issues[k])]

\* f"## {p['name']}"
HeadingLine(name) == <<"#", "#", " ">> \o name

\* the lines appended for one project, draft.py:306-337 (a project without url)
ProjectLines(p) ==
    << HeadingLine(p.name),
       <<"*", IF p.status = "None" THEN "Unknown" ELSE p.status, "*">>,
       <<>>,
       <<"**Last", " ", "Week**">> >>
    \o IssueLines(p.last_week)
    \o << <<>>, <<"**This", " ", "Week**">> >>
    \o IssueLines(p.this_week)
    \o << <<>> >>

RECURSIVE AllProjectLines(_)
AllProjectLines(projects) ==
    IF projects = <<>> THEN <<>>
    ELSE ProjectLines(Head(projects)) \o AllProjectLines(Tail(projects))

\* "\n".join(lines).rstrip() + "\n": the final "\n" ends the last line
_facts_to_markdown(projects) ==
    RStripLines(
        << <<"#", " ", "Weekly", " ", "Update", " ", "(team)">>,
           <<>>,
           <<"Generated:", " ", "date">>,
           <<>> >>
        \o AllProjectLines(projects))

(***************************************************************************)
(* _normalize_name and _parse_project_updates, cli.py:111-150              *)
(***************************************************************************)
Dashes == {"nbhyphen", "endash", "emdash"}

\* mutant: the dashes are left as they are
_normalize_name_keeps_dashes(name) == Strip(name)

\* name.replace(U+2011, "-").replace(U+2013, "-").replace(U+2014, "-").strip()
_normalize_name(name) ==
    Strip([i \in DOMAIN name |-> IF name[i] \in Dashes THEN "-" ELSE name[i]])

NoInfo == [id |-> 0, name |-> <<>>]

\* name_to_info.get(key): the dict is filled in list order, so the last
\* project with the key is the one found
NameToInfo(projects, key) ==
    LET same == { i \in DOMAIN projects : _normalize_name(projects[i].name) = key } IN
    IF same = {} THEN NoInfo
    ELSE LET last == CHOOSE i \in same : \A j \in same : j <= i
         IN  [id |-> projects[last].id, name |-> projects[last].name]

\* a line that r"^## (.+?)$" matches: "## " and at least one more character
IsHeading(line) == Len(line) >= 4 /\ SubSeq(line, 1, 3) = <<"#", "#", " ">>

HeadingIndexes(md) == { i \in DOMAIN md : IsHeading(md[i]) }

\* re.split: the (heading, text up to the next heading) pairs after the preamble
Sections(md) ==
    LET hs == HeadingIndexes(md)
        kth(k) == CHOOSE i \in hs : Cardinality({ j \in hs : j <= i }) = k
        upto(k) == IF k = Cardinality(hs) THEN Len(md) ELSE kth(k + 1) - 1
    IN  [k \in 1..Cardinality(hs) |->
            [heading |-> SubSeq(md[kth(k)], 4, Len(md[kth(k)])),
             text |-> SubSeq(md, kth(k) + 1, upto(k))]]

\* mutant: a section is emitted whatever its body
Emitted_any_body(r) == r.project_id # NoInfo.id

\* "if info and content", cli.py:141
Emitted(r) == r.project_id # NoInfo.id /\ r.body # <<>>

_parse_project_updates(md, projects) ==
    LET found == [k \in DOMAIN Sections(md) |->
                    LET sec == Sections(md)[k]
                        info == NameToInfo(projects, _normalize_name(Strip(sec.heading)))
                    IN  [project_id |-> info.id, project_name |-> info.name,
                         body |-> StripLines(sec.text)]]
    IN  SelectSeq(found, Emitted)

\* markdown = _facts_to_markdown(facts), draft.py:281
RenderFacts ==
    /\ rt_pc = "render"
    /\ rt_markdown' = _facts_to_markdown(rt_projects)
    /\ rt_pc' = "route"
    /\ UNCHANGED <<rt_projects, rt_results>>
    /\ UNCHANGED <<cyVars, gqVars, lsVars, pubVars, draftVars>>

\* project_updates = _parse_project_updates(markdown, facts), cli.py:190
RouteUpdates ==
    /\ rt_pc = "route"
    /\ rt_results' = _parse_project_updates(rt_markdown, rt_projects)
    /\ rt_pc' = "done"
    /\ UNCHANGED <<rt_projects, rt_markdown>>
    /\ UNCHANGED <<cyVars, gqVars, lsVars, pubVars, draftVars>>

IdleRoundTrip ==
    /\ rt_projects = <<>>
    /\ rt_markdown = <<>>
    /\ rt_results = <<>>
    /\ rt_pc = "idle"

IdlePublish ==
    /\ pub_updates = <<>>
    /\ pub_dry_run = FALSE
    /\ pub_i = 0
    /\ pub_step = "none"
    /\ current_health = HealthNone
    /\ posted_count = 0
    /\ pub_pc = "idle"
    /\ pub_written = FALSE
    /\ pub_reported = {}
    /\ pub_log = <<>>
    /\ srv_health = [p \in Projects |-> HealthNone]

IdleList ==
    /\ ls_op = "none"
    /\ ls_max_pages = 0
    /\ srv_pages = 0
    /\ ls_attempt = 0
    /\ ls_iter = 0
    /\ ls_after = NoCursor
    /\ ls_items = <<>>
    /\ ls_last_err = NoErr
    /\ ls_sent = <<>>
    /\ ls_pc = "idle"
    /\ ls_out = NoListOut

IdleGraphql ==
    /\ gq_resp = TransportFailure
    /\ gq_pc = "idle"
    /\ gq_out = OtherError("none")

\* the data payloads of the responses to a bare graphql call
PlainData == {"d1", "d2"}

PlainBodies ==
    {InvalidBody, NullBody, ArrayBody(0), ArrayBody(1)}
    \cup { ObjectBody(e, d) : e \in ErrorsMembers,
                              d \in {DataAbsent, DataNull} \cup { DataValue(v) : v \in PlainData } }

PlainResponses ==
    {TransportFailure} \cup { HttpResponse(st, b) : st \in Statuses, b \in PlainBodies }

InitGraphql ==
    /\ gq_resp \in PlainResponses
    /\ gq_pc = "call"
    /\ gq_out = OtherError("none")
    /\ IdleCycles
    /\ IdleList
    /\ IdlePublish
    /\ IdleRoundTrip
    /\ IdleDraft

Graphql ==
    /\ gq_pc = "call"
    /\ gq_out' = graphql(gq_resp)
    /\ gq_pc' = "done"
    /\ UNCHANGED <<gq_resp, cyVars, lsVars, pubVars, rtVars, draftVars>>

NextGraphql == Graphql

SpecGraphql == InitGraphql /\ [][NextGraphql]_vars

InitCycles ==
    /\ \E n \in 0..MaxCycles : \E w \in [1..n -> Times \X Times] : cycles = CycleList(w)
    /\ now_utc \in ReferenceInstants
    /\ pick_pc = "call"
    /\ picked = PickError("none")
    /\ IdleGraphql
    /\ IdleList
    /\ IdlePublish
    /\ IdleRoundTrip
    /\ IdleDraft

PickCycles ==
    /\ pick_pc = "call"
    /\ picked' = _pick_cycles(cycles, now_utc)
    /\ pick_pc' = "done"
    /\ UNCHANGED <<cycles, now_utc, gqVars, lsVars, pubVars, rtVars, draftVars>>

NextCycles == PickCycles

SpecCycles == InitCycles /\ [][NextCycles]_vars

(***************************************************************************)
(* Specification of the list operations: every operation, ceiling and      *)
(* number of server pages within the bounds; each request is served or     *)
(* fails.                                                                  *)
(***************************************************************************)
InitList ==
    /\ ls_op \in ListOps
    /\ ls_max_pages \in 1..MaxCeiling
    /\ srv_pages \in 1..MaxServerPages
    /\ ls_attempt = 1
    /\ ls_iter = 0
    /\ ls_after = NoCursor
    /\ ls_items = <<>>
    /\ ls_last_err = NoErr
    /\ ls_sent = <<>>
    /\ ls_pc = "loop"
    /\ ls_out = NoListOut
    /\ IdleCycles
    /\ IdleGraphql
    /\ IdlePublish
    /\ IdleRoundTrip
    /\ IdleDraft

NextList == ListPageServed \/ ListPageFailed

SpecList == InitList /\ [][NextList]_vars

(***************************************************************************)
(* Specification of the publish path: every list of routed updates, every  *)
(* health of the projects on the server and both values of --dry-run;      *)
(* each request is served or fails.                                        *)
(***************************************************************************)
InitPublish ==
    /\ pub_updates = <<>>
    /\ pub_dry_run \in BOOLEAN
    /\ pub_i = 0
    /\ pub_step = "none"
    /\ current_health = HealthNone
    /\ posted_count = 0
    /\ pub_pc = "start"
    /\ pub_written = FALSE
    /\ pub_reported = {}
    /\ pub_log = <<>>
    /\ srv_health \in [Projects -> HealthValues]
    /\ IdleCycles
    /\ IdleGraphql
    /\ IdleList
    /\ IdleRoundTrip
    /\ IdleDraft

NextPublish ==
    \/ PublishDraft
    \/ PublishRoute
    \/ PublishNothing
    \/ PublishDryRun
    \/ PublishBegin
    \/ PublishReadHealth
    \/ PublishCreate
    \/ PublishFinish

SpecPublish == InitPublish /\ [][NextPublish]_vars

(***************************************************************************)
(* _truncate, draft.py:286-290.  A text is the sequence of its characters; *)
(* None and "" are both the empty sequence once "text or ''" is taken.     *)
(***************************************************************************)
Ellipsis == "ellipsis"

\* mutant: max_chars characters are kept before the marker
_truncate_keeps_max(text, max_chars) ==
    LET t == Strip(text) IN
    IF Len(t) <= max_chars THEN t
    ELSE Append(RStrip(SubSeq(t, 1, max_chars)), Ellipsis)

_truncate(text, max_chars) ==
    LET t == Strip(text) IN
    IF Len(t) <= max_chars THEN t
    ELSE Append(RStrip(SubSeq(t, 1, max_chars - 1)), Ellipsis)

\* _truncate(c.body, 500), draft.py:141
MaxChars == 500

(***************************************************************************)
(* The facts of one issue, draft.py:133-168 (an issue of the previous      *)
(* cycle) and draft.py:175-224 (an issue of the current cycle).  Instants  *)
(* are whole days.                                                         *)
(***************************************************************************)
\* timedelta(weeks=2), in days
TwoWeeks == 14

\* comments_in_window[-5:]
KeepComments == 5

\* sorted(...)[:3]
LatestComments == 3

\* datetime.isoformat()
Isoformat(t) == <<"iso", t>>

\* the absent instant: max(..., default=None)
NoInstant == -1

Comment(id, created_at) ==
    [id |-> id, created_at |-> created_at, author_name |-> <<"user", id>>,
     body |-> <<" ", "c", " ">>]

IssueHistory(id, created_at, to_state) ==
    [id |-> id, created_at |-> created_at, type |-> "state",
     from_state |-> "Todo", to_state |-> to_state]

\* the issue the comments and the history belong to
FactIssue ==
    [id |-> "i1", identifier |-> "K-1", title |-> "t", url |-> "u",
     state_name |-> "Blocked", assignee_name |-> "ann"]

\* mutant: the window is open at its end
InWindow_open_end(t, window) == window[1] <= t /\ t < window[2]

\* prev_start <= c.created_at <= prev_end
InWindow(t, window) == window[1] <= t /\ t <= window[2]

CommentFact(c) ==
    [created_at |-> Isoformat(c.created_at), author |-> c.author_name,
     body |-> _truncate(c.body, MaxChars)]

HistoryFact(h) ==
    [created_at |-> Isoformat(h.created_at), type |-> h.type,
     from_state |-> h.from_state, to_state |-> h.to_state]

\* mutant: nothing is filtered
CommentsInWindow_unfiltered(comments, window) ==
    [i \in DOMAIN comments |-> CommentFact(comments[i])]

\* [{...} for c in comments if prev_start <= c.created_at <= prev_end]
CommentsInWindow(comments, window) ==
    LET kept == SelectSeq(comments, LAMBDA c : InWindow(c.created_at, window))
    IN  [i \in DOMAIN kept |-> CommentFact(kept[i])]

\* [{...} for h in history if prev_start <= h.created_at <= prev_end]
HistoryInWindow(history, window) ==
    LET kept == SelectSeq(history, LAMBDA h : InWindow(h.created_at, window))
    IN  [i \in DOMAIN kept |-> HistoryFact(kept[i])]

\* mutant: the first n elements
LastN_first(items, n) == SubSeq(items, 1, IF Len(items) < n THEN Len(items) ELSE n)

\* items[-n:]
LastN(items, n) ==
    IF Len(items) <= n THEN items ELSE SubSeq(items, Len(items) - n + 1, Len(items))

\* items[:n]
FirstN(items, n) == SubSeq(items, 1, IF Len(items) < n THEN Len(items) ELSE n)

\* c goes after the elements that are as recent or more recent (the sort is stable)
InsertRecent(sorted, c) ==
    LET before == { i \in DOMAIN sorted : sorted[i].created_at >= c.created_at }
        k == Cardinality(before)
    IN  SubSeq(sorted, 1, k) \o <<c>> \o SubSeq(sorted, k + 1, Len(sorted))

\* sorted(comments, key=lambda x: x.created_at, reverse=True)
RECURSIVE SortedRecentFirst(_)
SortedRecentFirst(comments) ==
    IF comments = <<>> THEN <<>>
    ELSE InsertRecent(SortedRecentFirst(SubSeq(comments, 1, Len(comments) - 1)),
                      comments[Len(comments)])

\* mutant: every history event counts as a state change
StateChanges_all(history) == history

\* [h for h in history if h.to_state is not None]
StateChanges(history) == SelectSeq(history, LAMBDA h : h.to_state # "None")

\* max((h.created_at for h in state_changes), default=None)
LastStateChange(history) ==
    LET at == { StateChanges(history)[i].created_at : i \in DOMAIN StateChanges(history) } IN
    IF at = {} THEN NoInstant ELSE CHOOSE t \in at : \A u \in at : u <= t

\* last_state_change is not None and last_state_change < two_weeks_ago
IsStale(last_state_change, now) ==
    last_state_change # NoInstant /\ last_state_change < now - TwoWeeks

\* str.lower() of the state labels that occur
Lower(label) ==
    CASE label = "Blocked" -> "blocked"
      [] label = "BLOCKED" -> "blocked"
      [] label = "ENG" -> "eng"
      [] label = "OPS" -> "ops"
      [] OTHER -> label

\* the dict appended to prev_issue_facts, draft.py:157-168
PrevIssueFacts(issue, comments, history, window) ==
    [id |-> issue.id, key |-> issue.identifier, title |-> issue.title, url |-> issue.url,
     state |-> issue.state_name, assignee |-> issue.assignee_name,
     history |-> HistoryInWindow(history, window),
     comments |-> LastN(CommentsInWindow(comments, window), KeepComments)]

\* the dict appended to curr_issue_facts, draft.py:208-224
CurrIssueFacts(issue, comments, history, window, now) ==
    [id |-> issue.id, key |-> issue.identifier, title |-> issue.title, url |-> issue.url,
     state |-> issue.state_name, assignee |-> issue.assignee_name,
     comments |-> LastN(CommentsInWindow(comments, window), KeepComments),
     latest_comments |->
        LET latest == FirstN(SortedRecentFirst(comments), LatestComments)
        IN  [i \in DOMAIN latest |-> CommentFact(latest[i])],
     last_state_change |->
        IF LastStateChange(history) = NoInstant THEN "None"
        ELSE Isoformat(LastStateChange(history)),
     is_blocked |-> Lower(issue.state_name) = "blocked",
     is_stale |-> IsStale(LastStateChange(history), now)]

\* the body of "for issue in prev_issues", draft.py:133-168
BuildPrevIssue ==
    /\ ft_pc = "fetched"
    /\ ft_kind = "prev"
    /\ ft_issue' = PrevIssueFacts(FactIssue, ft_comments, ft_history, ft_window)
    /\ ft_pc' = "built"
    /\ UNCHANGED <<ft_kind, ft_now, ft_window, ft_comments, ft_history>>
    /\ UNCHANGED <<cyVars, gqVars, lsVars, pubVars, rtVars, tmVars, scVars, trVars, orVars>>

\* the body of "for issue in curr_issues", draft.py:175-224
BuildCurrIssue ==
    /\ ft_pc = "fetched"
    /\ ft_kind = "curr"
    /\ ft_issue' = CurrIssueFacts(FactIssue, ft_comments, ft_history, ft_window, ft_now)
    /\ ft_pc' = "built"
    /\ UNCHANGED <<ft_kind, ft_now, ft_window, ft_comments, ft_history>>
    /\ UNCHANGED <<cyVars, gqVars, lsVars, pubVars, rtVars, tmVars, scVars, trVars, orVars>>

(***************************************************************************)
(* Specification of the issue facts: the reference instant is fixed, the   *)
(* previous cycle ends before the current one starts, the current one      *)
(* holds the reference instant; comments and history events are created    *)
(* at, next to and away from the instants the code compares them with.     *)
(***************************************************************************)
FactNow == TwoWeeks + 1

CycleWindow(kind) ==
    IF kind = "prev" THEN <<FactNow - 4, FactNow - 3>> ELSE <<FactNow - 1, FactNow>>

\* the day before the window, its first and last day, the day after
Around(window) == (window[1] - 1)..(window[2] + 1)

\* around two_weeks_ago
StaleInstants == (FactNow - TwoWeeks - 1)..(FactNow - TwoWeeks + 1)

HistoryInstants(kind) == IF kind = "prev" THEN Around(CycleWindow(kind)) ELSE StaleInstants

FetchedComments(n, at) == [i \in 1..n |-> Comment(i, at[i])]

FetchedHistory(n, at, to) == [i \in 1..n |-> IssueHistory(i, at[i], to[i])]

\* many comments with little history, or few comments with much history
InitFacts ==
    /\ ft_kind \in {"prev", "curr"}
    /\ ft_now = FactNow
    /\ ft_window = CycleWindow(ft_kind)
    /\ \/ /\ \E n \in 0..MaxComments :
               \E at \in [1..n -> Around(CycleWindow(ft_kind))] :
                 ft_comments = FetchedComments(n, at)
          /\ ft_history = <<>>
       \/ /\ \E n \in 0..1 :
               \E at \in [1..n -> Around(CycleWindow(ft_kind))] :
                 ft_comments = FetchedComments(n, at)
          /\ \E n \in 1..MaxHistory :
               \E at \in [1..n -> HistoryInstants(ft_kind)] :
                 \E to \in [1..n -> {"None", "Done"}] :
                   ft_history = FetchedHistory(n, at, to)
    /\ ft_issue = <<>>
    /\ ft_pc = "fetched"
    /\ IdleCycles
    /\ IdleGraphql
    /\ IdleList
    /\ IdlePublish
    /\ IdleRoundTrip
    /\ IdleTeam
    /\ IdleScope
    /\ IdleTruncate
    /\ IdleGeneration

NextFacts == BuildPrevIssue \/ BuildCurrIssue

SpecFacts == InitFacts /\ [][NextFacts]_vars

(***************************************************************************)
(* Specification of _truncate: bodies that are empty, short, and as long   *)
(* as max_chars give or take a few characters, with spaces at the places   *)
(* where trimming and cutting happen.                                      *)
(***************************************************************************)
BodyLengths == {0, 1} \cup (MaxChars - 2)..(MaxChars + MaxOver)

\* the first and the last character, and the characters around the cut
SpacePositions(n) == {1, MaxChars - 2, MaxChars - 1, MaxChars, MaxChars + 1, n} \cap 1..n

Body(n, spaces) ==
    [i \in 1..n |-> IF i \in spaces THEN " " ELSE IF i % 2 = 0 THEN "a" ELSE "b"]

\* body = _truncate(c.body, 500)
Truncate ==
    /\ tr_pc = "call"
    /\ tr_out' = _truncate(tr_text, MaxChars)
    /\ tr_pc' = "done"
    /\ UNCHANGED tr_text
    /\ UNCHANGED <<cyVars, gqVars, lsVars, pubVars, rtVars, tmVars, scVars, ftVars, orVars>>

InitTruncate ==
    /\ \E n \in BodyLengths :
         \E spaces \in SUBSET SpacePositions(n) : tr_text = Body(n, spaces)
    /\ tr_out = <<>>
    /\ tr_pc = "call"
    /\ IdleCycles
    /\ IdleGraphql
    /\ IdleList
    /\ IdlePublish
    /\ IdleRoundTrip
    /\ IdleTeam
    /\ IdleScope
    /\ IdleFacts
    /\ IdleGeneration

NextTruncate == Truncate

SpecTruncate == InitTruncate /\ [][NextTruncate]_vars

(***************************************************************************)
(* The report scope, draft.py:13-21 and 115-117                            *)
(***************************************************************************)
ALLOWED_PROJECT_STATUSES ==
    {"Evaluation", "PRD", "Design", "Development", "QA", "Ready for Release",
     "Limited Release"}

\* the status labels and project names that occur, lowercased names
\* included, in the order Python compares strings ("" first, capitals before
\* small letters)
StringOrder == <<"", "Alpha", "Beta", "Completed", "Design", "PRD", "alpha", "beta">>

StringRank(str) == CHOOSE i \in DOMAIN StringOrder : StringOrder[i] = str

\* p.name.lower()
LowerName(name) ==
    CASE name = "Alpha" -> "alpha"
      [] name = "Beta" -> "beta"
      [] OTHER -> name

\* p.status_name or ""
StatusOrEmpty(status_name) == IF status_name = "None" THEN "" ELSE status_name

\* mutant: every project is in scope
InScope_any_status(project) == TRUE

\* (p.status_name or "") in ALLOWED_PROJECT_STATUSES
InScope(project) == StatusOrEmpty(project.status_name) \in ALLOWED_PROJECT_STATUSES

\* key=lambda p: (p.status_name or "", p.name.lower())
SortKey(project) ==
    <<StringRank(StatusOrEmpty(project.status_name)), StringRank(LowerName(project.name))>>

\* the order of Python tuples
KeyLessEq(a, b) == a[1] < b[1] \/ (a[1] = b[1] /\ a[2] <= b[2])

\* list.sort is stable: project goes after the elements whose key is not greater
InsertByKey(sorted, project) ==
    LET before == { i \in DOMAIN sorted : KeyLessEq(SortKey(sorted[i]), SortKey(project)) }
        k == Cardinality(before)
    IN  SubSeq(sorted, 1, k) \o <<project>> \o SubSeq(sorted, k + 1, Len(sorted))

RECURSIVE SortedByKey(_)
SortedByKey(projects) ==
    IF projects = <<>> THEN <<>>
    ELSE InsertByKey(SortedByKey(SubSeq(projects, 1, Len(projects) - 1)),
                     projects[Len(projects)])

\* draft.py:116-117
ProjectsInScope(projects) == SortedByKey(SelectSeq(projects, InScope))

ScopeProjects ==
    /\ sc_pc = "fetched"
    /\ sc_in_scope' = ProjectsInScope(sc_projects)
    /\ sc_pc' = "scoped"
    /\ UNCHANGED sc_projects
    /\ UNCHANGED <<cyVars, gqVars, lsVars, pubVars, rtVars, tmVars, ftVars, trVars, orVars>>

(***************************************************************************)
(* Specification of the scope: every list of fetched projects within the   *)
(* bounds, with allowed, other and absent status labels.                   *)
(***************************************************************************)
FetchedStatuses == {"None", "Design", "PRD", "Completed"}

FetchedNames == {"Alpha", "alpha", "Beta"}

Project(id, name, status_name) == [id |-> id, name |-> name, status_name |-> status_name]

InitScope ==
    /\ \E n \in 0..(MaxProjects + 1) :
         \E names \in [1..n -> FetchedNames] :
           \E statuses \in [1..n -> FetchedStatuses] :
             sc_projects = [i \in 1..n |-> Project(i, names[i], statuses[i])]
    /\ sc_in_scope = <<>>
    /\ sc_pc = "fetched"
    /\ IdleCycles
    /\ IdleGraphql
    /\ IdleList
    /\ IdlePublish
    /\ IdleRoundTrip
    /\ IdleTeam
    /\ IdleFacts
    /\ IdleTruncate
    /\ IdleGeneration

NextScope == ScopeProjects

SpecScope == InitScope /\ [][NextScope]_vars

(***************************************************************************)
(* _pick_team, draft.py:24-44                                              *)
(***************************************************************************)
\* config.team_id is None
NoTeamId == 0

Team(id, key) == [id |-> id, key |-> key, name |-> <<"team", id>>]

TeamPicked(team) == [kind |-> "ok", team |-> team, message |-> "none", listed |-> <<>>]

\* raise LinearAPIError(message); listed: the teams the message names
TeamError(message, listed) ==
    [kind |-> "LinearAPIError", team |-> Team(NoTeamId, "None"), message |-> message,
     listed |-> listed]

\* f"{t.name}({t.key or t.id})"
TeamLabel(t) == <<t.name, IF t.key = "None" THEN <<"id", t.id>> ELSE <<"key", t.key>>>>

\* "for t in teams: if ...: return t": the first index of those that match
FirstIndex(matching) == CHOOSE i \in matching : \A j \in matching : i <= j

\* (t.key or "").lower() == config.team_key.lower()
KeyMatches(t, team_key) == Lower(IF t.key = "None" THEN "" ELSE t.key) = Lower(team_key)

SelectById(teams, config) ==
    LET matching == { i \in DOMAIN teams : teams[i].id = config.team_id } IN
    IF matching # {} THEN TeamPicked(teams[FirstIndex(matching)])
    ELSE TeamError("LINEAR_TEAM_ID not found", <<>>)

SelectByKey(teams, config) ==
    LET matching == { i \in DOMAIN teams : KeyMatches(teams[i], config.team_key) } IN
    IF matching # {} THEN TeamPicked(teams[FirstIndex(matching)])
    ELSE TeamError("LINEAR_TEAM_KEY not found", <<>>)

SelectOnly(teams) ==
    IF Len(teams) = 1 THEN TeamPicked(teams[1])
    ELSE TeamError("Multiple teams accessible", [i \in DOMAIN teams |-> TeamLabel(teams[i])])

\* mutant: the key is looked at before the id
_pick_team_key_first(teams, config) ==
    IF config.team_key # "None" THEN SelectByKey(teams, config)
    ELSE IF config.team_id # NoTeamId THEN SelectById(teams, config)
    ELSE SelectOnly(teams)

_pick_team(teams, config) ==
    IF config.team_id # NoTeamId THEN SelectById(teams, config)
    ELSE IF config.team_key # "None" THEN SelectByKey(teams, config)
    ELSE SelectOnly(teams)

\* team = _pick_team(client, config), draft.py:107
PickTeam ==
    /\ tm_pc = "listed"
    /\ tm_out' = _pick_team(tm_teams, tm_config)
    /\ tm_pc' = "picked"
    /\ UNCHANGED <<tm_teams, tm_config>>
    /\ UNCHANGED <<cyVars, gqVars, lsVars, pubVars, rtVars, scVars, ftVars, trVars, orVars>>

(***************************************************************************)
(* Specification of the team selection: up to MaxTeams accessible teams,   *)
(* with and without key, and every configuration of id and key.            *)
(***************************************************************************)
TeamKeys == {"None", "ENG", "ops"}

ConfiguredKeys == {"None", "eng", "OPS", "zzz"}

InitTeam ==
    /\ \E n \in 0..MaxTeams :
         \E keys \in [1..n -> TeamKeys] : tm_teams = [i \in 1..n |-> Team(i, keys[i])]
    /\ \E id \in {NoTeamId} \cup 1..(MaxTeams + 1) :
         \E key \in ConfiguredKeys : tm_config = [team_id |-> id, team_key |-> key]
    /\ tm_out = <<>>
    /\ tm_pc = "listed"
    /\ IdleCycles
    /\ IdleGraphql
    /\ IdleList
    /\ IdlePublish
    /\ IdleRoundTrip
    /\ IdleScope
    /\ IdleFacts
    /\ IdleTruncate
    /\ IdleGeneration

NextTeam == PickTeam

SpecTeam == InitTeam /\ [][NextTeam]_vars

(***************************************************************************)
(* OpenRouterClient._chat, openrouter_client.py:46-75.                     *)
(*                                                                         *)
(* client.post raises (a transport failure) or returns a response with a   *)
(* status code and a body; resp.json() raises on a body that is not JSON   *)
(* and otherwise returns the JSON value: null, an array or an object.  Of  *)
(* an object the code reads ["choices"][0]["message"]["content"].          *)
(***************************************************************************)
\* the first element of "choices": its "message" is absent, null, or an
\* object whose "content" is absent, null or a text
ChoiceShapes ==
    { [message |-> "absent", content |-> "absent"],
      [message |-> "null", content |-> "absent"],
      [message |-> "object", content |-> "absent"],
      [message |-> "object", content |-> "null"],
      [message |-> "object", content |-> "markdown"] }

NoChoice == [message |-> "absent", content |-> "absent"]

ChatBody(kind, choices, n, first) == [json |-> kind, choices |-> choices, n |-> n, first |-> first]

\* the bodies of a response: not JSON, null, an array, an object without
\* "choices", with "choices": null, with a list of n choices
ChatBodies ==
    { ChatBody("invalid", "absent", 0, NoChoice),
      ChatBody("null", "absent", 0, NoChoice),
      ChatBody("array", "absent", 0, NoChoice),
      ChatBody("object", "absent", 0, NoChoice),
      ChatBody("object", "null", 0, NoChoice),
      ChatBody("object", "list", 0, NoChoice) }
    \cup { ChatBody("object", "list", n, first) : n \in 1..MaxChoices, first \in ChoiceShapes }

ChatStatuses == {200, 201, 399, 400, 404, 500}

ChatTransportFailure ==
    [transport |-> "failed", status |-> 0, body |-> ChatBody("invalid", "absent", 0, NoChoice)]

ChatResponse(status, body) == [transport |-> "ok", status |-> status, body |-> body]

ChatReturned(content) == [kind |-> "ok", content |-> content]

\* an exception of class kind leaves _chat
ChatRaised(kind) == [kind |-> kind, content |-> "none"]

\* payload["choices"][0]["message"]["content"] raises KeyError, IndexError or TypeError
ContentMissing(body) ==
    \/ body.choices # "list"
    \/ body.n = 0
    \/ body.first.message # "object"
    \/ body.first.content = "absent"

_chat(resp) ==
    IF resp.transport # "ok"
    THEN \* client.post raises: no handler around it
         ChatRaised("HTTPError")
    ELSE IF resp.status >= 400
    THEN ChatRaised("OpenRouterError")
    ELSE IF resp.body.json = "invalid"
    THEN \* resp.json() raises outside the try
         ChatRaised("JSONDecodeError")
    ELSE IF resp.body.json # "object"
    THEN \* the subscript raises TypeError; in the handler payload.keys() raises
         ChatRaised("AttributeError")
    ELSE IF ContentMissing(resp.body)
    THEN ChatRaised("OpenRouterError")
    ELSE \* the content, None when it is null
         ChatReturned(resp.body.first.content)

\* content = self._chat(...), openrouter_client.py:29
Chat ==
    /\ or_pc = "sent"
    /\ or_out' = _chat(or_resp)
    /\ or_pc' = "done"
    /\ UNCHANGED or_resp
    /\ UNCHANGED <<cyVars, gqVars, lsVars, pubVars, rtVars, tmVars, scVars, ftVars, trVars>>

InitGeneration ==
    /\ or_resp \in {ChatTransportFailure}
                   \cup { ChatResponse(st, body) : st \in ChatStatuses, body \in ChatBodies }
    /\ or_out = <<>>
    /\ or_pc = "sent"
    /\ IdleCycles
    /\ IdleGraphql
    /\ IdleList
    /\ IdlePublish
    /\ IdleRoundTrip
    /\ IdleTeam
    /\ IdleScope
    /\ IdleFacts
    /\ IdleTruncate

NextGeneration == Chat

SpecGeneration == InitGeneration /\ [][NextGeneration]_vars

(***************************************************************************)
(* Specification of the round trip: every list of in-scope projects within *)
(* the bounds is rendered by the deterministic renderer, and the document  *)
(* routed back.                                                            *)
(***************************************************************************)
\* project names: with each kind of dash, with a space at the end, plain
ProjectNames ==
    { <<"a", "-", "b">>, <<"a", "endash", "b">>, <<"a", "emdash", "b">>,
      <<"a", "nbhyphen", "b">>, <<"a", "b">>, <<"a", "b", " ">> }

LastWeekIssue == [key |-> "K-1", title |-> "t1", state |-> "Done", assignee |-> "None"]
ThisWeekIssue == [key |-> "None", title |-> "t2", state |-> "None", assignee |-> "ann"]

\* the project blocks of a FactDocument: ids are positions in the list
FactProject(i, name, last, this) ==
    [id |-> i, name |-> name, status |-> "Design", last_week |-> last, this_week |-> this]

InitRoundTrip ==
    /\ \E n \in 0..MaxProjects :
          \E names \in [1..n -> ProjectNames] :
            \E last \in [1..n -> {<<>>, <<LastWeekIssue>>}] :
              \E this \in [1..n -> {<<>>, <<ThisWeekIssue>>}] :
                rt_projects = [i \in 1..n |-> FactProject(i, names[i], last[i], this[i])]
    /\ rt_markdown = <<>>
    /\ rt_results = <<>>
    /\ rt_pc = "render"
    /\ IdleCycles
    /\ IdleGraphql
    /\ IdleList
    /\ IdlePublish
    /\ IdleDraft

NextRoundTrip == RenderFacts \/ RouteUpdates

SpecRoundTrip == InitRoundTrip /\ [][NextRoundTrip]_vars

(***************************************************************************)
(* Specification of the router alone: the document is any text of at most  *)
(* MaxLines lines (the generator may write anything), routed against a     *)
(* list of in-scope projects.                                              *)
(***************************************************************************)
Hyphens == {"-"} \cup Dashes

\* the lines a document is made of; dash is the hyphen-like character its
\* headings are written with
DocumentLines(dash) ==
    { HeadingLine(<<"a", dash, "b">>),
      HeadingLine(<<" ", "a", dash, "b", " ">>),
      HeadingLine(<<"a", "b">>),
      <<"#">> \o HeadingLine(<<"a", dash, "b">>),
      <<>>,
      <<"t">> }

NamedProjects(names) == [i \in DOMAIN names |-> FactProject(i, names[i], <<>>, <<>>)]

\* facts["projects"]: none, one, two, two with one name, a dash in the name,
\* a space after the name
RoutedProjectLists ==
    { NamedProjects(<<>>),
      NamedProjects(<< <<"a", "-", "b">> >>),
      NamedProjects(<< <<"a", "b">>, <<"a", "-", "b">> >>),
      NamedProjects(<< <<"a", "-", "b">>, <<"a", "-", "b">> >>),
      NamedProjects(<< <<"a", "endash", "b">>, <<"a", "b">> >>),
      NamedProjects(<< <<"a", "-", "b", " ">> >>) }

InitRoute ==
    /\ rt_projects \in RoutedProjectLists
    /\ \E dash \in Hyphens :
          \E n \in 0..MaxLines :
            \E doc \in [1..n -> DocumentLines(dash)] : rt_markdown = doc
    /\ rt_results = <<>>
    /\ rt_pc = "route"
    /\ IdleCycles
    /\ IdleGraphql
    /\ IdleList
    /\ IdlePublish
    /\ IdleDraft

NextRoute == RouteUpdates

SpecRoute == InitRoute /\ [][NextRoute]_vars

(***************************************************************************)
(* Claims about _pick_cycles                                               *)
(***************************************************************************)
CycleSet == { cycles[i] : i \in DOMAIN cycles }

\* the cycles that end strictly before c starts
EndingBefore(c) == { d \in CycleSet : d.ends_at < c.starts_at }

SomeCycleContainsNow == \E c \in CycleSet : c.starts_at <= now_utc /\ now_utc <= c.ends_at

\* C1: when some cycle's closed interval [start, end] contains the reference
\* instant, _pick_cycles either returns a containing cycle as current together
\* with, as previous, a cycle of latest end among the cycles that end strictly
\* before current's start, or fails with an error and no pair, which it does
\* only when no cycle ends strictly before the start of the containing cycle.
C1_ContainmentBranch ==
    (pick_pc = "done" /\ SomeCycleContainsNow) =>
        IF picked.kind = "ok"
        THEN /\ picked.current \in CycleSet
             /\ picked.current.starts_at <= now_utc
             /\ now_utc <= picked.current.ends_at
             /\ picked.previous \in EndingBefore(picked.current)
             /\ \A d \in EndingBefore(picked.current) :
                    d.ends_at <= picked.previous.ends_at
        ELSE /\ picked.kind = "LinearAPIError"
             /\ picked.current = NoCycle /\ picked.previous = NoCycle
             /\ \E c \in CycleSet :
                    /\ c.starts_at <= now_utc /\ now_utc <= c.ends_at
                    /\ EndingBefore(c) = {}

\* C1 witness: a pair was returned by containment, chosen among two cycles
\* that end before current's start at different instants.
C1_Witness ==
    /\ pick_pc = "done" /\ SomeCycleContainsNow /\ picked.kind = "ok"
    /\ \E d \in EndingBefore(picked.current) : d.ends_at < picked.previous.ends_at

\* "past" and "future" as the fallback branch splits them: a cycle lies in the
\* past when it ends at or before the reference instant, in the future when it
\* starts strictly after it.
PastSet == { c \in CycleSet : c.ends_at <= now_utc }
FutureSet == { c \in CycleSet : c.starts_at > now_utc }

\* C2: when no cycle contains the reference instant and there are both a past
\* and a future cycle, _pick_cycles returns the future cycle of earliest start
\* as current and the past cycle of latest end as previous, whether or not
\* another cycle ends later and still before current's start.
C2_FallbackBranch ==
    (pick_pc = "done" /\ ~SomeCycleContainsNow /\ PastSet # {} /\ FutureSet # {}) =>
        /\ picked.kind = "ok"
        /\ picked.current \in FutureSet
        /\ \A f \in FutureSet : picked.current.starts_at <= f.starts_at
        /\ picked.previous \in PastSet
        /\ \A p \in PastSet : p.ends_at <= picked.previous.ends_at

\* C2 witness: the fallback returned a pair although a cycle that ends before
\* current's start ends later than the returned previous: the containment
\* branch's rule would have chosen differently.
C2_Witness ==
    /\ pick_pc = "done" /\ ~SomeCycleContainsNow /\ picked.kind = "ok"
    /\ Cardinality(FutureSet) >= 2
    /\ \E d \in EndingBefore(picked.current) : d.ends_at > picked.previous.ends_at

WellFormedCycles == \A c \in CycleSet : c.starts_at < c.ends_at

GoodResponse(resp) ==
    /\ resp.status < 400
    /\ resp.body.json # "invalid"
    /\ ~(resp.body.errors.tag = "list" /\ resp.body.errors.list # <<>>)
    /\ resp.body.data.tag # "absent"

\* C4: graphql returns the data payload only for a response with status below
\* 400 whose body parses as JSON, has no non-empty error list and has the data
\* key; for every other response (status >= 400, unparseable body, non-empty
\* error list, data absent) it raises LinearAPIError and no other kind of
\* error, and the raised error carries the response's error list when the
\* response had one.
C4_GraphqlContract ==
    (gq_pc = "done" /\ gq_resp.transport = "ok") =>
        /\ gq_out.kind = "ok" =>
              GoodResponse(gq_resp) /\ gq_out.data = gq_resp.body.data.value
        /\ ~GoodResponse(gq_resp) =>
              /\ gq_out.kind = "LinearAPIError"
              /\ gq_resp.body.errors.tag = "list" => gq_out.errors = gq_resp.body.errors.list

\* C4 for the responses whose body is not JSON or is a JSON object (or null):
\* what is left of the contract when the body is no JSON array.
C4_ObjectBodies ==
    (gq_pc = "done" /\ gq_resp.transport = "ok" /\ gq_resp.body.json # "array") =>
        /\ gq_out.kind = "ok" =>
              GoodResponse(gq_resp) /\ gq_out.data = gq_resp.body.data.value
        /\ ~GoodResponse(gq_resp) =>
              /\ gq_out.kind = "LinearAPIError"
              /\ gq_resp.body.errors.tag = "list" => gq_out.errors = gq_resp.body.errors.list

(***************************************************************************)
(* Claims about the paginated list operations                              *)
(***************************************************************************)
\* every request so far was answered with the page it asked for
AllServed == \A i \in DOMAIN ls_sent : ls_sent[i].served

RECURSIVE FirstPages(_)
\* the nodes of the server's pages 1..m, in page order
FirstPages(m) == IF m = 0 THEN <<>> ELSE FirstPages(m - 1) \o PageNodes(m)

\* C5: a list operation (cycles, projects, issues, comments, history) that
\* meets no failure against a server holding N pages ends by returning, never
\* by raising, after exactly min(N, max_pages) requests; the first request
\* carries no cursor and each later one the cursor of the page before it; the
\* result is the items of those pages in page order, also when N exceeds
\* max_pages.
C5_Pagination ==
    (ls_pc \in {"returned", "raised"} /\ AllServed) =>
        LET m == IF srv_pages < ls_max_pages THEN srv_pages ELSE ls_max_pages IN
        /\ ls_pc = "returned"
        /\ ls_out.kind = "ok"
        /\ Len(ls_sent) = m
        /\ ls_sent[1].after = NoCursor
        /\ \A i \in 2..m : ls_sent[i].after = PageData(i - 1, srv_pages).endCursor
        /\ ls_out.items = Converted(FirstPages(m), Queries(ls_op)[1])

\* C5 witness: a run without failures returned at the ceiling although the
\* server holds more pages.
C5_Witness ==
    /\ ls_pc = "returned" /\ AllServed
    /\ ls_max_pages >= 2
    /\ srv_pages > ls_max_pages

\* the requests of the attempt that was running last
LastAttemptServed ==
    { i \in DOMAIN ls_sent : ls_sent[i].served /\ ls_sent[i].via = Queries(ls_op)[ls_attempt] }

\* the order of the shapes and the result of a completed pagination
ProjectsFallback ==
    /\ ls_sent # <<>> => ls_sent[1].via = "status"
    /\ \A i \in DOMAIN ls_sent :
          ls_sent[i].via = "projectStatus" =>
              \E j \in 1..(i - 1) : ls_sent[j].via = "status" /\ ~ls_sent[j].served
    /\ ls_pc = "returned" =>
          /\ ls_out.kind = "ok"
          /\ ls_out.items =
                Converted(FirstPages(Cardinality(LastAttemptServed)), Queries(ls_op)[ls_attempt])

\* C6 as stated: list_team_projects issues the projectStatus shape only after
\* the status shape has failed, returns the projects of the first shape whose
\* pagination completes without items of a failed attempt, and when both
\* shapes fail raises one LinearAPIError that reports both attempts.
C6_Original ==
    ls_op = "projects" =>
        /\ ProjectsFallback
        /\ ls_pc = "raised" =>
              /\ ls_out.kind = "LinearAPIError"
              /\ { ls_out.reports[i].attempt : i \in DOMAIN ls_out.reports }
                    = {"status", "projectStatus"}

\* C6 amended: as C6, but when both shapes fail the one LinearAPIError raised
\* reports the failure of the last attempt (projectStatus) only; the failure
\* of the status attempt is not in it.
C6_ProjectsFallback ==
    ls_op = "projects" =>
        /\ ProjectsFallback
        /\ ls_pc = "raised" =>
              /\ ls_out.kind = "LinearAPIError"
              /\ ls_out.reports = <<ls_last_err>>
              /\ ls_last_err.attempt = "projectStatus"
              /\ ~ls_sent[Len(ls_sent)].served

\* C6 witness: both shapes failed, the first one after it had accumulated a
\* page of projects, and the combined error was raised.
C6_Witness ==
    /\ ls_op = "projects" /\ ls_pc = "raised"
    /\ \E i \in DOMAIN ls_sent : ls_sent[i].via = "status" /\ ls_sent[i].served

(***************************************************************************)
(* Claims about the publish path                                           *)
(***************************************************************************)
HealthReads == { k \in DOMAIN pub_log : pub_log[k].op = "health" }
Mutations == { k \in DOMAIN pub_log : pub_log[k].op = "create" }

\* C7: get_project_health never raises: whatever way the lookup fails
\* (transport failure, HTTP status >= 400, unparseable body, error list,
\* missing data, null project), it returns, and the mutation of the same
\* update is the next thing attempted.
C7_HealthNeverRaises ==
    /\ \A k \in HealthReads : pub_log[k].outcome = "returned"
    /\ (pub_log # <<>> /\ pub_log[Len(pub_log)].op = "health") =>
           pub_pc = "loop" /\ pub_step = "create"

\* C7 on the failures get_project_health does handle: a lookup that fails
\* with a LinearAPIError returns the absent value and the mutation follows.
C7_Degraded ==
    \A k \in HealthReads :
        pub_log[k].degraded =>
            /\ pub_log[k].outcome = "returned"
            /\ pub_log[k].health = HealthNone
            /\ k = Len(pub_log) => pub_pc = "loop" /\ pub_step = "create"

\* C8: a failure in the health read or in the mutation of one update does not
\* abort the run: the run is never aborted, every update whose mutation
\* raised is reported, and a finished run has attempted the mutation of every
\* routed update in order and counts exactly the mutations that returned
\* success.
C8_PerProjectFailures ==
    /\ pub_pc # "aborted"
    /\ \A k \in Mutations :
          pub_log[k].outcome # "returned" => pub_log[k].i \in pub_reported
    /\ pub_pc = "done" =>
          /\ \A i \in DOMAIN pub_updates :
                \E k \in Mutations : pub_log[k].i = i /\ pub_log[k].project = pub_updates[i]
          /\ \A k, l \in Mutations : k < l => pub_log[k].i < pub_log[l].i
          /\ posted_count = Cardinality({ k \in Mutations : pub_log[k].success })
          /\ posted_count <= Len(pub_updates)

\* what C9 says of the mutation input: the health field is there exactly when
\* a health was passed, with that value, and the value passed is the one the
\* health read just before returned for the same update and project
HealthForwarded(k) ==
    /\ k > 1
    /\ pub_log[k - 1].op = "health"
    /\ pub_log[k - 1].i = pub_log[k].i
    /\ pub_log[k - 1].project = pub_log[k].project
    /\ pub_log[k].has_health <=> pub_log[k - 1].health # HealthNone
    /\ pub_log[k].has_health => pub_log[k].health = pub_log[k - 1].health

\* C9 as stated: the health read just before is forwarded in the mutation
\* input, so every mutation leaves the project's health on the server as it
\* was.
C9_Original ==
    \A k \in Mutations :
        /\ HealthForwarded(k)
        /\ pub_log[k].after = pub_log[k].before

\* C9 amended: the health read just before is forwarded in the mutation
\* input; the mutation leaves the project's health on the server as it was
\* whenever that read got the health from the server; after a read that
\* failed with a LinearAPIError and returned the absent value, the input has
\* no health field.
C9_HealthPreserved ==
    \A k \in Mutations :
        /\ HealthForwarded(k)
        /\ ~pub_log[k - 1].degraded => pub_log[k].after = pub_log[k].before
        /\ pub_log[k - 1].degraded => ~pub_log[k].has_health

\* C9 witness: a mutation that the server carried out, with the health read
\* from the server in its input, for a project that has a health.
C9_Witness ==
    \E k \in Mutations :
        /\ pub_log[k].success
        /\ ~pub_log[k - 1].degraded
        /\ pub_log[k].has_health
        /\ pub_log[k].before # HealthNone
        /\ pub_log[k].after = pub_log[k].before

(***************************************************************************)
(* Claims about the round trip                                             *)
(***************************************************************************)
HasIssues(p) == p.last_week # <<>> \/ p.this_week # <<>>

\* the routed sections keyed to project p
SectionsOf(p) == { k \in DOMAIN rt_results : rt_results[k].project_id = p.id }

\* the body of the section the renderer wrote for project p
RenderedBody(p) == StripLines(Tail(ProjectLines(p)))

\* C10: rendering a FactDocument with _facts_to_markdown and routing the
\* document back recovers, for every project with a non-empty issue list,
\* exactly one section keyed to that project's id, and it is the section
\* rendered from that project; also when project names coincide after
\* normalization.
C10_RoundTrip ==
    rt_pc = "done" =>
        \A i \in DOMAIN rt_projects :
            HasIssues(rt_projects[i]) =>
                /\ Cardinality(SectionsOf(rt_projects[i])) = 1
                /\ \A k \in SectionsOf(rt_projects[i]) :
                      /\ rt_results[k].body = RenderedBody(rt_projects[i])
                      /\ rt_results[k].project_name = rt_projects[i].name

\* the project names stay distinct under normalization
DistinctNormalizedNames ==
    \A i, j \in DOMAIN rt_projects :
        i # j => _normalize_name(rt_projects[i].name) # _normalize_name(rt_projects[j].name)

\* C10 where no two names coincide after normalization: one section per
\* project, in order, each keyed to the project it was rendered from, for the
\* projects without issues as well ("- No updates" is a body).
C10_DistinctNames ==
    (rt_pc = "done" /\ DistinctNormalizedNames) =>
        /\ Len(rt_results) = Len(rt_projects)
        /\ \A i \in DOMAIN rt_projects :
              /\ rt_results[i].project_id = rt_projects[i].id
              /\ rt_results[i].project_name = rt_projects[i].name
              /\ rt_results[i].body = RenderedBody(rt_projects[i])

(***************************************************************************)
(* Claims about _parse_project_updates                                     *)
(***************************************************************************)
\* the text of a "##" heading line, and the lines up to the next one
HeadingOf(k) == LET hs == HeadingIndexes(rt_markdown)
                    at == CHOOSE i \in hs : Cardinality({ j \in hs : j <= i }) = k
                IN  SubSeq(rt_markdown[at], 4, Len(rt_markdown[at]))

LinesOf(k) == LET hs == HeadingIndexes(rt_markdown)
                  at == CHOOSE i \in hs : Cardinality({ j \in hs : j <= i }) = k
                  later == { i \in hs : i > at }
                  stop == IF later = {} THEN Len(rt_markdown) + 1
                          ELSE CHOOSE i \in later : \A j \in later : i <= j
              IN  SubSeq(rt_markdown, at + 1, stop - 1)

HasBody(k) == \E n \in DOMAIN LinesOf(k) : ~IsBlank(LinesOf(k)[n])

\* the projects whose normalized name is the normalized heading of section k
Namesakes(k) ==
    { i \in DOMAIN rt_projects :
        _normalize_name(rt_projects[i].name) = _normalize_name(HeadingOf(k)) }

\* the sections that are to be emitted
Matched == { k \in 1..Cardinality(HeadingIndexes(rt_markdown)) :
                Namesakes(k) # {} /\ HasBody(k) }

\* C11: a result is emitted for a "##" section iff its normalized heading is
\* the normalized name of a project and its body is non-empty after
\* trimming; everything else is dropped; the results are in document order
\* and carry the id and the original name of the matched project (the last
\* one in the list when several share the normalized name) and the trimmed
\* body.
C11_RoutedSections ==
    rt_pc = "done" =>
        /\ Len(rt_results) = Cardinality(Matched)
        /\ \A k \in Matched :
              LET r == rt_results[Cardinality({ m \in Matched : m <= k })]
                  i == CHOOSE i \in Namesakes(k) : \A j \in Namesakes(k) : j <= i
              IN  /\ r.project_id = rt_projects[i].id
                  /\ r.project_name = rt_projects[i].name
                  /\ r.body = StripLines(LinesOf(k))

\* a document with a preamble and two sections, one emitted and one dropped
C11_Witness ==
    /\ rt_pc = "done"
    /\ Len(rt_results) = 1
    /\ Cardinality(HeadingIndexes(rt_markdown)) = 2
    /\ 1 \notin HeadingIndexes(rt_markdown)

\* heading h is name with some ASCII hyphens written as another dash
DashVariantOf(h, name) ==
    /\ Len(h) = Len(name)
    /\ \A i \in DOMAIN h : h[i] = name[i] \/ (name[i] = "-" /\ h[i] \in Dashes)

DashVariantSections(i) ==
    { k \in 1..Cardinality(HeadingIndexes(rt_markdown)) :
        /\ DashVariantOf(HeadingOf(k), rt_projects[i].name)
        /\ HeadingOf(k) # rt_projects[i].name
        /\ HasBody(k) }

\* the project found under the name of project i
LastNamesake(i) ==
    CHOOSE j \in DOMAIN rt_projects :
        /\ _normalize_name(rt_projects[j].name) = _normalize_name(rt_projects[i].name)
        /\ \A l \in DOMAIN rt_projects :
              _normalize_name(rt_projects[l].name) = _normalize_name(rt_projects[i].name)
                  => l <= j

Transitions == { i \in DOMAIN ft_history : ft_history[i].to_state # "None" }

\* C13: a current-cycle issue is stale iff its fetched history has an event
\* with a non-null to-state and the latest of those events, inside the window
\* or not, was created strictly earlier than 14 days before the reference
\* instant; exactly 14 days before is not stale, and no such event is not
\* stale.
C13_Stale ==
    (ft_pc = "built" /\ ft_kind = "curr") =>
        /\ ft_issue.is_stale <=>
              /\ Transitions # {}
              /\ \A i \in Transitions : ft_history[i].created_at < ft_now - 14
        /\ (\E i \in Transitions : ft_history[i].created_at = ft_now - 14)
              => ~ft_issue.is_stale

\* a stale issue whose history also holds a later event without to-state
C13_Witness ==
    /\ ft_pc = "built"
    /\ ft_kind = "curr"
    /\ ft_issue.is_stale
    /\ \E i \in DOMAIN ft_history :
          ft_history[i].to_state = "None" /\ ft_history[i].created_at >= ft_now - 14

\* how many records of a list were created at t
CreatedAt(records, t) == Cardinality({ i \in DOMAIN records : records[i].created_at = t })

Inside(t) == ft_window[1] <= t /\ t <= ft_window[2]

InWindowIds == { i \in DOMAIN ft_comments : Inside(ft_comments[i].created_at) }

\* C14: the window filter is inclusive at both ends: the comments (while no
\* more than five are in the window) and, for a previous-cycle issue, the
\* history events created at the window's start, at its end or between are
\* all in the issue's lists, those created the day before or the day after
\* are not; for the previous and for the current window.
C14_InclusiveWindow ==
    ft_pc = "built" =>
        /\ Cardinality(InWindowIds) <= KeepComments =>
              \A t \in Around(ft_window) :
                  CreatedAt(ft_issue.comments, Isoformat(t))
                      = IF Inside(t) THEN CreatedAt(ft_comments, t) ELSE 0
        /\ ft_kind = "prev" =>
              \A t \in Around(ft_window) :
                  CreatedAt(ft_issue.history, Isoformat(t))
                      = IF Inside(t) THEN CreatedAt(ft_history, t) ELSE 0

\* comments created at the start, at the end and outside of the window
C14_Witness ==
    /\ ft_pc = "built"
    /\ CreatedAt(ft_issue.comments, Isoformat(ft_window[1])) > 0
    /\ CreatedAt(ft_issue.comments, Isoformat(ft_window[2])) > 0
    /\ Len(ft_issue.comments) < Len(ft_comments)

InsideFacts(records) ==
    \A i \in DOMAIN records : \E t \in ft_window[1]..ft_window[2] :
        records[i].created_at = Isoformat(t)

\* C15 as stated: every comment list and history list of the issue holds
\* only records created within the window of the issue's cycle.
C15_Original ==
    ft_pc = "built" =>
        /\ InsideFacts(ft_issue.comments)
        /\ ft_kind = "prev" => InsideFacts(ft_issue.history)
        /\ ft_kind = "curr" => InsideFacts(ft_issue.latest_comments)

\* C15 amended: the comments list and the history list of an issue hold only
\* records created within the window of the issue's cycle; the
\* latest_comments list of a current-cycle issue is taken from all fetched
\* comments, whatever the window: it holds the three most recent (all when
\* there are three or fewer).
C15_FilteredLists ==
    ft_pc = "built" =>
        /\ InsideFacts(ft_issue.comments)
        /\ ft_kind = "prev" => InsideFacts(ft_issue.history)
        /\ ft_kind = "curr" =>
              /\ Len(ft_issue.latest_comments)
                    = IF Len(ft_comments) < 3 THEN Len(ft_comments) ELSE 3
              /\ \A i \in DOMAIN ft_issue.latest_comments :
                    \E k \in DOMAIN ft_comments :
                        /\ ft_issue.latest_comments[i].author = ft_comments[k].author_name
                        /\ Cardinality({ l \in DOMAIN ft_comments :
                              ft_comments[l].created_at > ft_comments[k].created_at }) < 3

\* a latest_comments list with a comment from outside the window
C15_Witness ==
    /\ ft_pc = "built"
    /\ ft_kind = "curr"
    /\ ~InsideFacts(ft_issue.latest_comments)
    /\ ft_issue.comments # <<>>

\* the n-th in-window comment in fetch order
NthInWindow(n) == CHOOSE i \in InWindowIds : Cardinality({ j \in InWindowIds : j <= i }) = n

Trimmed == Strip(tr_text)

\* C16 as stated: a body of 501 characters (after trimming) is cut to its
\* first 499 characters followed by the marker, 500 characters in all; a
\* body of at most 500 characters after trimming is returned trimmed.
C16_Original ==
    tr_pc = "done" =>
        /\ Len(Trimmed) = 501 =>
              /\ tr_out = Append(SubSeq(Trimmed, 1, 499), Ellipsis)
              /\ Len(tr_out) = 500
        /\ Len(Trimmed) <= 500 => tr_out = Trimmed

\* C16 amended: a body longer than 500 characters after trimming is cut to
\* its first 499 characters, the whitespace that ends them is removed, and
\* the marker is appended: at most 500 characters, and exactly the first 499
\* and the marker when the 499th character is not whitespace.  A body of at
\* most 500 characters after trimming is returned trimmed, without marker.
C16_Truncate ==
    tr_pc = "done" =>
        /\ Len(Trimmed) > 500 =>
              /\ \E k \in 0..499 :
                    /\ tr_out = Append(SubSeq(Trimmed, 1, k), Ellipsis)
                    /\ k > 0 => Trimmed[k] # " "
                    /\ \A j \in (k + 1)..499 : Trimmed[j] = " "
              /\ Len(tr_out) <= 500
              /\ Trimmed[499] # " " =>
                    /\ tr_out = Append(SubSeq(Trimmed, 1, 499), Ellipsis)
                    /\ Len(tr_out) = 500
        /\ Len(Trimmed) <= 500 =>
              /\ tr_out = Trimmed
              /\ \A i \in DOMAIN tr_out : tr_out[i] # Ellipsis

\* a body of 501 characters whose 499th character is a space
C16_Witness ==
    /\ tr_pc = "done"
    /\ Len(tr_text) = 501
    /\ Len(Trimmed) = 501
    /\ tr_text[499] = " "
    /\ Len(tr_out) < 500

(***************************************************************************)
(* Claims about the report scope                                           *)
(***************************************************************************)
ScopedIds == { sc_in_scope[i].id : i \in DOMAIN sc_in_scope }

\* the (status label, lowercased name) of the i-th block
BlockKey(i) == <<StringRank(sc_in_scope[i].status_name),
                 StringRank(LowerName(sc_in_scope[i].name))>>

\* C17: a fetched project is in scope, once, iff its status label is one of
\* the seven allowed labels; the scope is in ascending order of (status
\* label, lowercased name); a project without status label is not in scope.
C17_Scope ==
    sc_pc = "scoped" =>
        /\ \A i \in DOMAIN sc_projects :
              (\E k \in DOMAIN sc_in_scope : sc_in_scope[k] = sc_projects[i])
                  <=> sc_projects[i].status_name \in ALLOWED_PROJECT_STATUSES
        /\ Cardinality(ScopedIds) = Len(sc_in_scope)
        /\ ScopedIds \subseteq 1..Len(sc_projects)
        /\ \A i \in DOMAIN sc_in_scope : sc_in_scope[i].status_name # "None"
        /\ \A i, j \in DOMAIN sc_in_scope :
              i < j => \/ BlockKey(i)[1] < BlockKey(j)[1]
                       \/ BlockKey(i)[1] = BlockKey(j)[1] /\ BlockKey(i)[2] <= BlockKey(j)[2]

\* projects were dropped and the others reordered
C17_Witness ==
    /\ sc_pc = "scoped"
    /\ Len(sc_in_scope) = 2
    /\ Len(sc_projects) = 3
    /\ sc_in_scope[1].id > sc_in_scope[2].id

(***************************************************************************)
(* Claims about _pick_team                                                 *)
(***************************************************************************)
WithId == { i \in DOMAIN tm_teams : tm_teams[i].id = tm_config.team_id }

\* keys are compared without regard to case
SameKey(a, b) ==
    \/ a = b
    \/ {a, b} = {"ENG", "eng"}
    \/ {a, b} = {"OPS", "ops"}

WithKey == { i \in DOMAIN tm_teams :
               tm_teams[i].key # "None" /\ SameKey(tm_teams[i].key, tm_config.team_key) }

NoSelector == tm_config.team_id = 0 /\ tm_config.team_key = "None"

First(set) == CHOOSE i \in set : \A j \in set : i <= j

\* C18: without id and key, more than one accessible team is an error that
\* lists every accessible team, and exactly one accessible team is returned;
\* with an id, the team of that id is returned or the selection fails, the
\* key not being looked at; with a key alone, the team of that key is
\* returned or the selection fails.
C18_TeamSelection ==
    tm_pc = "picked" =>
        /\ (NoSelector /\ Len(tm_teams) > 1) =>
              /\ tm_out.kind = "LinearAPIError"
              /\ Len(tm_out.listed) = Len(tm_teams)
              /\ \A i \in DOMAIN tm_teams : tm_out.listed[i][1] = tm_teams[i].name
        /\ (NoSelector /\ Len(tm_teams) = 1) =>
              tm_out.kind = "ok" /\ tm_out.team = tm_teams[1]
        /\ tm_config.team_id # 0 =>
              IF WithId # {}
              THEN tm_out.kind = "ok" /\ tm_out.team = tm_teams[First(WithId)]
              ELSE tm_out.kind = "LinearAPIError"
        /\ (tm_config.team_id = 0 /\ tm_config.team_key # "None") =>
              IF WithKey # {}
              THEN tm_out.kind = "ok" /\ tm_out.team = tm_teams[First(WithKey)]
              ELSE tm_out.kind = "LinearAPIError"

\* the id and the key name different teams: the id's team is returned
C18_Witness ==
    /\ tm_pc = "picked"
    /\ WithId # {}
    /\ WithKey # {}
    /\ WithId \cap WithKey = {}
    /\ tm_out.kind = "ok"

(***************************************************************************)
(* Claims about OpenRouterClient._chat                                     *)
(***************************************************************************)
\* the response has no choices[0].message.content
LacksContent ==
    \/ or_resp.body.json # "object"
    \/ or_resp.body.choices # "list"
    \/ or_resp.body.n = 0
    \/ or_resp.body.first.message # "object"
    \/ or_resp.body.first.content = "absent"

\* C19: the service call fails with OpenRouterError, and with no other kind
\* of error, when the call fails in transport, when the status is not a
\* success, and when the response lacks the message content field.
C19_GenerationErrors ==
    or_pc = "done" =>
        /\ (or_resp.transport # "ok" \/ or_resp.status >= 400 \/ LacksContent)
              => or_out.kind = "OpenRouterError"
        /\ or_out.kind \in {"ok", "OpenRouterError"}

\* what holds of C19: a response with a status of 400 or more, and a JSON
\* object without the content field, end in OpenRouterError.
C19_StatusAndShape ==
    (or_pc = "done" /\ or_resp.transport = "ok") =>
        /\ or_resp.status >= 400 => or_out.kind = "OpenRouterError"
        /\ (or_resp.body.json = "object" /\ LacksContent) => or_out.kind = "OpenRouterError"

C21_OrderedCycles ==
    pick_pc = "done" =>
        /\ (~SomeCycleContainsNow /\ (PastSet = {} \/ FutureSet = {})) =>
              /\ picked.kind = "LinearAPIError"
              /\ picked.current = NoCycle /\ picked.previous = NoCycle
        /\ (picked.kind = "ok" /\ \A c \in CycleSet : c.starts_at <= c.ends_at)
              => picked.current.id # picked.previous.id

\* C22: in a run with dry-run set, or whose routing yields no update, no
\* health read and no mutation is issued and the output file is not
\* written; nothing is issued before the document is drafted and routed; the
\* mutations are issued for routed updates, at most one for each, in routed
\* order.
C22_PublishOrder ==
    /\ (pub_dry_run \/ pub_pc = "exit_early" \/ (pub_pc # "start" /\ pub_pc # "drafted"
                                                   /\ pub_updates = <<>>))
          => (pub_log = <<>> /\ ~pub_written)
    /\ pub_pc \in {"start", "drafted", "routed"} => (pub_log = <<>> /\ ~pub_written)
    /\ \A k \in Mutations :
          /\ pub_log[k].i \in DOMAIN pub_updates
          /\ pub_log[k].project = pub_updates[pub_log[k].i]
    /\ \A k, l \in Mutations : k < l => pub_log[k].i < pub_log[l].i

\* a run that issued the mutations of two routed updates and wrote the file
C22_Witness ==
    /\ pub_pc = "done"
    /\ pub_written
    /\ Cardinality(Mutations) = 2

\* a dry run with routed updates that ended before the loop
C22_DryRunWitness ==
    /\ pub_pc = "exit_early"
    /\ pub_dry_run
    /\ pub_updates # <<>>

====
